---- MODULE Spec2Model ----
(***************************************************************************)
(* Bucket arrays of the Equi-X solver (crates/equix/src/bucket_array.rs). *)
(*                                                                         *)
(* One live wrapper (a KeyValueBucketArray or a ValueBucketArray) over    *)
(* two regions of BucketArrayMemory. The type parameters N, CAP, Count,   *)
(* Key and KeyStorage are instantiated with small widths.                 *)
(***************************************************************************)
EXTENDS Integers, Sequences, FiniteSets, TLC

(***************************************************************************)
(* Instantiation of the type parameters <N, CAP, C, K, KS, V>.            *)
(***************************************************************************)
\* const N: usize, the number of buckets
N == 2
\* const CAP: usize, the item capacity of each bucket
CAP == 2
\* width in bits of the Count type C
CountBits == 2
\* width in bits of the Key type K
KeyBits == 3
\* width in bits of the KeyStorage type KS
KSBits == 1
\* calls (insert and lookups) made on one wrapper and its downgraded successor
MaxCalls == 4

RECURSIVE Pow2(_)
Pow2(n) == IF n = 0 THEN 1 ELSE 2 * Pow2(n - 1)

KeyMax == Pow2(KeyBits) - 1
KSMax == Pow2(KSBits) - 1

AllKeys == 0 .. KeyMax
KSValues == 0 .. KSMax
\* the payloads V the callers insert
Values == {1, 2}

\* bucket indices and item indices of BucketArrayMemory<N, CAP, T>
Buckets == 0 .. (N - 1)
Items == 0 .. (CAP - 1)

\* markers (no bucket, item, key or value is negative)
Panic == 0 - 1
NoItem == Panic
NoValue == Panic

(***************************************************************************)
(* MaybeUninit<T>: a cell is <<>> until written, then <<v>>.              *)
(***************************************************************************)
Uninit == <<>>

\* MaybeUninit::write
Written(v) == <<v>>

\* MaybeUninit::assume_init: the outcomes of reading a cell. Reading a cell
\* that was never written is undefined behaviour: any value of the type.
assume_init(cell, type) == IF cell = Uninit THEN type ELSE {cell[1]}

\* [[MaybeUninit<T>; M]; N] as handed over by the allocator
BucketArrayMemory == [b \in Buckets |-> [i \in Items |-> Uninit]]

(***************************************************************************)
(* Key, KeyStorage and Count arithmetic.                                   *)
(***************************************************************************)
\* bitwise AND of two naturals
RECURSIVE BitAnd(_, _)
BitAnd(x, y) ==
    IF x = 0 \/ y = 0 THEN 0
    ELSE 2 * BitAnd(x \div 2, y \div 2) + ((x % 2) * (y % 2))

\* Key::from_bucket_index: usize -> K, panics if out of range
from_bucket_index(i) == IF i <= KeyMax THEN i ELSE Panic

\* into_key widening with sign extension
into_key_sign_extended(s) ==
    IF s >= Pow2(KSBits - 1) THEN s + (Pow2(KeyBits) - Pow2(KSBits)) ELSE s

\* KeyStorage::into_key: KS -> K, panics if out of range
into_key(s) == IF s <= KeyMax THEN s ELSE Panic

\* from_key with a mask that is one bit short
from_key_short_mask(k) == BitAnd(k, KSMax \div 2)

\* from_key without the mask: the conversion fails for a key that does not fit
from_key_unmasked(k) == IF k <= KSMax THEN k ELSE Panic

\* from_key saturating at the largest KeyStorage value
from_key_saturating(k) == IF k <= KSMax THEN k ELSE KSMax

\* KeyStorage::from_key: K -> KS, masking with !KS::zero()
from_key(k) ==
    LET key_mask == into_key(KSMax)
        masked == BitAnd(k, key_mask)
    IN  IF key_mask = Panic THEN Panic
        ELSE IF masked <= KSMax THEN masked ELSE Panic

\* Shape::divisor for an array of n buckets
divisor(n) == from_bucket_index(n)

\* split_wide_key returning the quotient as the bucket and the rest as the
\* remainder
split_wide_key_swapped(n, key) ==
    [bucket |-> key \div divisor(n), remainder |-> key % divisor(n)]

\* Shape::split_wide_key for an array of n buckets
split_wide_key(n, key) ==
    [bucket |-> key % divisor(n), remainder |-> key \div divisor(n)]

\* join_wide_key with the bucket and the remainder in each other's place
join_wide_key_swapped(n, bucket, remainder) ==
    LET exact == from_bucket_index(bucket) * divisor(n) + remainder
    IN  [value |-> exact % Pow2(KeyBits), overflow |-> exact > KeyMax]

\* Shape::join_wide_key for an array of n buckets: the value is kept to the
\* width of K, and overflow records that remainder * divisor + bucket left it
join_wide_key(n, bucket, remainder) ==
    LET exact == remainder * divisor(n) + from_bucket_index(bucket)
    IN  [value |-> exact % Pow2(KeyBits), overflow |-> exact > KeyMax]


(***************************************************************************)
(* The state.                                                              *)
(***************************************************************************)
VARIABLES
    kind,       \* which wrapper is live: "KeyValue" or "Value"
    counts,     \* BucketArrayImpl::counts
    key_mem,    \* the BucketArrayMemory<N, CAP, KS> behind key_mem
    value_mem,  \* the BucketArrayMemory<N, CAP, V> behind value_mem
    last,       \* the last call and what it returned
    ncalls,     \* number of calls made so far
    vlog,       \* history: per bucket, the values of the inserts that returned Ok
    klog,       \* history: per bucket, the keys of the KeyValue inserts that returned Ok
    calc,       \* the key arithmetic on its own (SpecArith)
    cbits,      \* the width in bits of the Count type C of this array
    claim,      \* per memory region, the wrappers holding its &mut borrow
    pc          \* the insert in progress, statement by statement (SpecSteps)

vars == <<kind, counts, key_mem, value_mem, last, ncalls, vlog, klog, calc,
          cbits, claim, pc>>

wrapper == <<kind, counts, key_mem, value_mem, last, ncalls, vlog, klog,
             cbits, claim, pc>>

\* what no call changes: the key arithmetic, the Count type, the statement
\* position of an insert run as a whole
aside == <<calc, cbits, pc>>

NoCall == [op |-> "new", bucket |-> NoItem, item |-> NoItem, status |-> "Ok", ret |-> NoValue]

CalcIdle == [phase |-> "idle", n |-> 0, key |-> 0, bucket |-> 0, remainder |-> 0,
             joined |-> 0, overflow |-> FALSE, stored |-> 0, widened |-> 0,
             rebucket |-> 0, reremainder |-> 0, restored |-> 0]

Aborted == last.status = "Abort"

\* the largest value of the Count type
CountMax == Pow2(cbits) - 1

\* the increment done in a type one bit narrower than C
CountAddNarrow(c) == (c + 1) % Pow2(cbits - 1)

\* item_count + C::one(), kept to the width of C
CountAddOne(c) == (c + 1) % Pow2(cbits)

\* item_count + C::one() does not fit the Count type: the addition panics
\* (overflow checks on) or wraps (overflow checks off)
add_overflows(c) == c + 1 > CountMax

\* no insert in progress
PcIdle == [stage |-> "idle", kv |-> FALSE, key |-> 0, bucket |-> 0, remainder |-> 0,
           item |-> 0, key_storage |-> 0, value |-> 0]

\* the borrows a wrapper made by new holds: key_mem: &'k mut, value_mem: &'v mut
claims_of_new(k) ==
    [key |-> IF k = "KeyValue" THEN {k} ELSE {}, value |-> {k}]

\* BucketArrayImpl::new
BucketArrayImpl_new == [b \in Buckets |-> 0]

\* KeyValueBucketArray::new and ValueBucketArray::new
Init ==
    /\ kind \in {"KeyValue", "Value"}
    /\ counts = BucketArrayImpl_new
    /\ key_mem = BucketArrayMemory
    /\ value_mem = BucketArrayMemory
    /\ last = NoCall
    /\ ncalls = 0
    /\ vlog = [b \in Buckets |-> <<>>]
    /\ klog = [b \in Buckets |-> <<>>]
    /\ calc = CalcIdle
    /\ cbits = CountBits
    /\ claim = claims_of_new(kind)
    /\ pc = PcIdle

\* BucketArrayImpl::item_range: 0 .. counts[bucket], as a set of item indices
item_range(cs, bucket) == 0 .. (cs[bucket] - 1)

\* insert that refuses as soon as any bucket of the array is full
BucketArrayImpl_insert_any_full(cs, bucket) ==
    LET item_count == cs[bucket]
    IN  IF \A b \in DOMAIN cs : cs[b] < CAP
        THEN [status |-> "Ok", item |-> item_count,
              counts |-> [cs EXCEPT ![bucket] = CountAddOne(item_count)]]
        ELSE [status |-> "Err", item |-> NoItem, counts |-> cs]

\* insert whose capacity check lets one item too many in
BucketArrayImpl_insert_le(cs, bucket) ==
    LET item_count == cs[bucket]
    IN  IF item_count <= CAP
        THEN [status |-> "Ok", item |-> item_count,
              counts |-> [cs EXCEPT ![bucket] = CountAddOne(item_count)]]
        ELSE [status |-> "Err", item |-> NoItem, counts |-> cs]

\* insert that overwrites the last item of a full bucket before it returns Err
BucketArrayImpl_insert_overwrite(cs, bucket) ==
    LET item_count == cs[bucket]
    IN  IF item_count < CAP
        THEN [status |-> "Ok", item |-> item_count,
              counts |-> [cs EXCEPT ![bucket] = CountAddOne(item_count)]]
        ELSE [status |-> "Err", item |-> CAP - 1, counts |-> cs]

\* insert that hands the writer the count after the increment
BucketArrayImpl_insert_post(cs, bucket) ==
    LET item_count == cs[bucket]
    IN  IF item_count < CAP
        THEN [status |-> "Ok", item |-> CountAddOne(item_count),
              counts |-> [cs EXCEPT ![bucket] = CountAddOne(item_count)]]
        ELSE [status |-> "Err", item |-> NoItem, counts |-> cs]

\* BucketArrayImpl::insert: the outcome, the index handed to the writer and
\* the counters afterwards
BucketArrayImpl_insert(cs, bucket) ==
    LET item_count == cs[bucket]
    IN  IF item_count < CAP
        THEN [status |-> "Ok", item |-> item_count,
              counts |-> [cs EXCEPT ![bucket] = CountAddOne(item_count)]]
        ELSE [status |-> "Err", item |-> NoItem, counts |-> cs]

\* Call(op, bucket, item, status, ret): what `last` records of a call
Call(op, bucket, item, status, ret) ==
    [op |-> op, bucket |-> bucket, item |-> item, status |-> status, ret |-> ret]

\* a write that fills the whole bucket with v
write_whole_bucket(mem, bucket, item, v) ==
    [mem EXCEPT ![bucket] = [i \in Items |-> Written(v)]]

\* a write that goes to a copy of the memory (BucketArrayMemory is Copy)
write_to_copy(mem, bucket, item, v) == mem

\* bucket_mem.inner[bucket][item].write(v)
write(mem, bucket, item, v) == [mem EXCEPT ![bucket][item] = Written(v)]

\* insert that converts the remainder to KeyStorage, without a mask, in the
\* ValueBucketArray too
insert_call_keyed(kv, cs, key) ==
    LET s == split_wide_key(N, key)
        indexed == s.bucket \in DOMAIN cs
        r == IF indexed THEN BucketArrayImpl_insert(cs, s.bucket)
             ELSE [status |-> "Abort", item |-> NoItem, counts |-> cs]
        key_storage == IF kv THEN from_key(s.remainder)
                       ELSE from_key_unmasked(s.remainder)
        called == r.item # NoItem
        writer_panics ==
            called /\ (key_storage = Panic \/ r.item \notin Items)
        overflows ==
            r.status = "Ok" /\ ~writer_panics /\ add_overflows(cs[s.bucket])
    IN  [bucket |-> s.bucket, item |-> r.item, key_storage |-> key_storage,
         wrote |-> called /\ ~writer_panics, counts |-> r.counts,
         statuses |-> IF ~indexed \/ writer_panics THEN {"Abort"}
                      ELSE IF overflows THEN {"Abort", "Ok"}
                      ELSE {r.status}]

\* One call of insert on the KeyValueBucketArray (kv) or the ValueBucketArray:
\* the bucket, the index handed to the writer, whether the writer wrote, and
\* the statuses the call can end with. counts[bucket] and the memory are
\* indexed with bounds checks, which panic.
insert_call(kv, cs, key) ==
    LET s == split_wide_key(N, key)
        indexed == s.bucket \in DOMAIN cs
        r == IF indexed THEN BucketArrayImpl_insert(cs, s.bucket)
             ELSE [status |-> "Abort", item |-> NoItem, counts |-> cs]
        key_storage == IF kv THEN from_key(s.remainder) ELSE NoValue
        called == r.item # NoItem
        writer_panics ==
            called /\ ((kv /\ key_storage = Panic) \/ r.item \notin Items)
        overflows ==
            r.status = "Ok" /\ ~writer_panics /\ add_overflows(cs[s.bucket])
    IN  [bucket |-> s.bucket, item |-> r.item, key_storage |-> key_storage,
         wrote |-> called /\ ~writer_panics, counts |-> r.counts,
         statuses |-> IF ~indexed \/ writer_panics THEN {"Abort"}
                      ELSE IF overflows THEN {"Abort", "Ok"}
                      ELSE {r.status}]

\* KeyValueBucketArray::insert, as one of the first `limit` calls
KeyValue_insert_within(limit, key, value) ==
    /\ kind = "KeyValue" /\ ~Aborted /\ ncalls < limit
    /\ LET c == insert_call(TRUE, counts, key)
       IN  \E status \in c.statuses :
               /\ counts' = IF status = "Ok" THEN c.counts ELSE counts
               /\ key_mem' = IF c.wrote
                              THEN write(key_mem, c.bucket, c.item, c.key_storage)
                              ELSE key_mem
               /\ value_mem' = IF c.wrote
                                THEN write(value_mem, c.bucket, c.item, value)
                                ELSE value_mem
               /\ last' = Call("insert", c.bucket, c.item, status, NoValue)
               /\ vlog' = IF status = "Ok"
                           THEN [vlog EXCEPT ![c.bucket] = Append(@, value)]
                           ELSE vlog
               /\ klog' = IF status = "Ok"
                           THEN [klog EXCEPT ![c.bucket] = Append(@, key)]
                           ELSE klog
    /\ ncalls' = ncalls + 1
    /\ UNCHANGED <<kind, claim, aside>>

\* KeyValueBucketArray::insert
KeyValue_insert(key, value) == KeyValue_insert_within(MaxCalls, key, value)

\* ValueBucketArray::insert, as one of the first `limit` calls
Value_insert_within(limit, key, value) ==
    /\ kind = "Value" /\ ~Aborted /\ ncalls < limit
    /\ LET c == insert_call(FALSE, counts, key)
       IN  \E status \in c.statuses :
               /\ counts' = IF status = "Ok" THEN c.counts ELSE counts
               /\ value_mem' = IF c.wrote
                                THEN write(value_mem, c.bucket, c.item, value)
                                ELSE value_mem
               /\ last' = Call("insert", c.bucket, c.item, status, NoValue)
               /\ vlog' = IF status = "Ok"
                           THEN [vlog EXCEPT ![c.bucket] = Append(@, value)]
                           ELSE vlog
    /\ ncalls' = ncalls + 1
    /\ UNCHANGED <<kind, key_mem, klog, claim, aside>>

\* ValueBucketArray::insert
Value_insert(key, value) == Value_insert_within(MaxCalls, key, value)

\* drop_key_storage that leaves the consumed wrapper its borrow of the values
drop_key_storage_claims_dup(cl) ==
    [key |-> cl.key \ {"KeyValue"}, value |-> cl.value \cup {"Value"}]

\* the borrows after drop_key_storage(self): self is consumed, value_mem
\* moves into the ValueBucketArray, key_mem is given back
drop_key_storage_claims(cl) ==
    [key |-> cl.key \ {"KeyValue"},
     value |-> (cl.value \ {"KeyValue"}) \cup {"Value"}]

\* drop_key_storage building the ValueBucketArray with fresh counters
drop_key_storage_fresh(inner) == BucketArrayImpl_new

\* the counters the ValueBucketArray of drop_key_storage gets: inner: self.inner
drop_key_storage_inner(inner) == inner

\* KeyValueBucketArray::drop_key_storage
drop_key_storage ==
    /\ kind = "KeyValue" /\ ~Aborted
    /\ kind' = "Value"
    /\ counts' = drop_key_storage_inner(counts)
    /\ claim' = drop_key_storage_claims(claim)
    /\ last' = Call("drop_key_storage", NoItem, NoItem, "Ok", NoValue)
    /\ UNCHANGED <<key_mem, value_mem, ncalls, vlog, klog, aside>>

(***************************************************************************)
(* Lookups. Each gives the set of outcomes of the call: Panic for a failed *)
(* assertion or index, else what assume_init can read.                     *)
(***************************************************************************)
\* the range assertion letting the index one past the last item through
in_item_range_inclusive(cs, bucket, item) ==
    bucket \in Buckets /\ item \in 0 .. cs[bucket]

\* assert!(self.inner.item_range(bucket).contains(&item)): counts[bucket] is
\* indexed first, and panics for a bucket that is out of range
in_item_range(cs, bucket, item) ==
    bucket \in Buckets /\ item \in item_range(cs, bucket)

\* KeyValueBucketArray::item_value and ValueBucketArray::item_value
item_value(cs, vmem, bucket, item) ==
    IF in_item_range(cs, bucket, item) /\ item \in Items
    THEN assume_init(vmem[bucket][item], Values)
    ELSE {Panic}

\* KeyValueBucketArray::item_stored_key
item_stored_key(cs, kmem, bucket, item) ==
    IF in_item_range(cs, bucket, item) /\ item \in Items
    THEN assume_init(kmem[bucket][item], KSValues)
    ELSE {Panic}

\* the outcomes of join_wide_key(bucket, stored.into_key()): an overflow of
\* the Key arithmetic panics or wraps, as the build decides
full_key_of(bucket, stored) ==
    LET remainder == into_key(stored)
        j == join_wide_key(N, bucket, remainder)
    IN  IF stored = Panic \/ remainder = Panic THEN {Panic}
        ELSE IF j.overflow THEN {Panic, j.value}
        ELSE {j.value}

\* KeyValueBucketArray::item_full_key
item_full_key(cs, kmem, bucket, item) ==
    UNION {full_key_of(bucket, stored) : stored \in item_stored_key(cs, kmem, bucket, item)}

\* item_range clamping the bucket index to the last bucket
Shape_item_range_clamped(cs, bucket) ==
    item_range(cs, IF bucket \in DOMAIN cs THEN bucket ELSE N - 1)

\* Shape::item_range as the callers see it: self.counts[bucket] panics for a
\* bucket that is out of range
Shape_item_range(cs, bucket) ==
    IF bucket \in DOMAIN cs THEN item_range(cs, bucket) ELSE {Panic}

\* the arguments the callers try: every bucket and item, and one past the end
BucketArgs == 0 .. N
ItemArgs == 0 .. CAP

\* a lookup returned r (or panicked)
Looked(op, bucket, item, r) ==
    /\ last' = Call(op, bucket, item, IF r = Panic THEN "Abort" ELSE "Ok", r)
    /\ ncalls' = ncalls + 1
    /\ UNCHANGED <<kind, counts, key_mem, value_mem, vlog, klog, claim, aside>>

\* a call of item_range on the live wrapper; ret is the end of the range
ItemRange(bucket) ==
    /\ ~Aborted /\ ncalls < MaxCalls
    /\ LET r == Shape_item_range(counts, bucket)
       IN  Looked("item_range", bucket, NoItem,
                  IF r = {Panic} THEN Panic ELSE Cardinality(r))

\* a call of item_value on the live wrapper
ItemValue(bucket, item) ==
    /\ ~Aborted /\ ncalls < MaxCalls
    /\ \E r \in item_value(counts, value_mem, bucket, item) :
           Looked("item_value", bucket, item, r)

\* a call of item_stored_key on the KeyValueBucketArray
ItemStoredKey(bucket, item) ==
    /\ kind = "KeyValue" /\ ~Aborted /\ ncalls < MaxCalls
    /\ \E r \in item_stored_key(counts, key_mem, bucket, item) :
           Looked("item_stored_key", bucket, item, r)

\* a call of item_full_key on the KeyValueBucketArray
ItemFullKey(bucket, item) ==
    /\ kind = "KeyValue" /\ ~Aborted /\ ncalls < MaxCalls
    /\ \E r \in item_full_key(counts, key_mem, bucket, item) :
           Looked("item_full_key", bucket, item, r)

\* the keys the callers insert: in every bucket, one whose remainder fits
\* KeyStorage and one whose remainder does not
Keys == {k \in AllKeys : (k \div N) \in {1, Pow2(KSBits)}}

Next ==
    \/ \E key \in Keys, value \in Values : KeyValue_insert(key, value)
    \/ \E key \in Keys, value \in Values : Value_insert(key, value)
    \/ drop_key_storage
    \/ \E bucket \in BucketArgs : ItemRange(bucket)
    \/ \E bucket \in BucketArgs, item \in ItemArgs : ItemValue(bucket, item)
    \/ \E bucket \in BucketArgs, item \in ItemArgs : ItemStoredKey(bucket, item)
    \/ \E bucket \in BucketArgs, item \in ItemArgs : ItemFullKey(bucket, item)

Spec == Init /\ [][Next]_vars

(***************************************************************************)
(* The key arithmetic on its own: a key and a bucket count are split and   *)
(* joined again.                                                           *)
(***************************************************************************)
\* every key, and every bucket count the Key type can represent
InitArith ==
    /\ kind = "KeyValue"
    /\ counts = BucketArrayImpl_new
    /\ key_mem = BucketArrayMemory
    /\ value_mem = BucketArrayMemory
    /\ last = NoCall
    /\ ncalls = 0
    /\ vlog = [b \in Buckets |-> <<>>]
    /\ klog = [b \in Buckets |-> <<>>]
    /\ cbits = CountBits
    /\ claim = claims_of_new(kind)
    /\ pc = PcIdle
    /\ \E n \in 1 .. KeyMax, key \in AllKeys :
           calc = [CalcIdle EXCEPT !.phase = "input", !.n = n, !.key = key]

\* split_wide_key(key)
ArithSplit ==
    /\ calc.phase = "input"
    /\ LET s == split_wide_key(calc.n, calc.key)
       IN  calc' = [calc EXCEPT !.phase = "split", !.bucket = s.bucket,
                                !.remainder = s.remainder]
    /\ UNCHANGED wrapper

\* join_wide_key(bucket, remainder)
ArithJoin ==
    /\ calc.phase = "split"
    /\ LET j == join_wide_key(calc.n, calc.bucket, calc.remainder)
       IN  calc' = [calc EXCEPT !.phase = "joined", !.joined = j.value,
                                !.overflow = j.overflow]
    /\ UNCHANGED wrapper

\* KeyStorage::from_key(key)
ArithFromKey ==
    /\ calc.phase = "input"
    /\ calc' = [calc EXCEPT !.phase = "stored", !.stored = from_key(calc.key)]
    /\ UNCHANGED wrapper

\* stored.into_key()
ArithIntoKey ==
    /\ calc.phase = "stored"
    /\ calc' = [calc EXCEPT !.phase = "widened",
                            !.widened = IF calc.stored = Panic THEN Panic
                                        ELSE into_key(calc.stored)]
    /\ UNCHANGED wrapper

\* the callers of join_wide_key pick a bucket, N itself included, and a
\* remainder
ArithPair ==
    /\ calc.phase = "input"
    /\ \E bucket \in 0 .. calc.n, remainder \in AllKeys :
           calc' = [calc EXCEPT !.phase = "pair", !.bucket = bucket,
                                !.remainder = remainder]
    /\ UNCHANGED wrapper

\* join_wide_key(bucket, remainder) on the pair
ArithJoinPair ==
    /\ calc.phase = "pair"
    /\ LET j == join_wide_key(calc.n, calc.bucket, calc.remainder)
       IN  calc' = [calc EXCEPT !.phase = "paired", !.joined = j.value,
                                !.overflow = j.overflow]
    /\ UNCHANGED wrapper

\* split_wide_key of the key join_wide_key returned
ArithSplitPair ==
    /\ calc.phase = "paired" /\ ~calc.overflow
    /\ LET s == split_wide_key(calc.n, calc.joined)
       IN  calc' = [calc EXCEPT !.phase = "resplit", !.rebucket = s.bucket,
                                !.reremainder = s.remainder]
    /\ UNCHANGED wrapper

\* s.into_key() for a KeyStorage value s
ArithWiden ==
    /\ calc.phase = "input"
    /\ \E s \in KSValues :
           calc' = [calc EXCEPT !.phase = "wide", !.stored = s,
                                !.widened = into_key(s)]
    /\ UNCHANGED wrapper

\* KeyStorage::from_key of the widened value
ArithNarrow ==
    /\ calc.phase = "wide"
    /\ calc' = [calc EXCEPT !.phase = "narrowed",
                            !.restored = IF calc.widened = Panic THEN Panic
                                         ELSE from_key(calc.widened)]
    /\ UNCHANGED wrapper

NextArith ==
    \/ ArithSplit
    \/ ArithJoin
    \/ ArithFromKey
    \/ ArithIntoKey
    \/ ArithPair
    \/ ArithJoinPair
    \/ ArithSplitPair
    \/ ArithWiden
    \/ ArithNarrow

SpecArith == InitArith /\ [][NextArith]_vars

(***************************************************************************)
(* Properties.                                                             *)
(***************************************************************************)
\* the step is a call of insert (on either wrapper)
InsertStep == last'.op = "insert" /\ ncalls' = ncalls + 1

\* the step is drop_key_storage
DropStep == kind = "KeyValue" /\ kind' = "Value"

\* C1: capacity monotonicity. Once CAP inserts into bucket b have returned
\* Ok (on the wrapper or on the KeyValueBucketArray it was downgraded
\* from), item_range(b) is exactly 0 .. CAP-1 in this and every later state,
\* and every later insert whose key maps to b returns Err.
C1_CapacityMonotonic ==
    [][\A b \in Buckets :
          Len(vlog[b]) >= CAP =>
              /\ item_range(counts, b) = Items
              /\ item_range(counts', b) = Items
              /\ (InsertStep /\ last'.bucket = b) => last'.status = "Err"]_vars

\* C1 witness: a bucket filled through the KeyValueBucketArray refuses an
\* insert after the downgrade.
C1_Witness ==
    /\ last.op = "insert" /\ last.status = "Err"
    /\ kind = "Value"
    /\ Len(klog[last.bucket]) = CAP
    /\ item_range(counts, last.bucket) = Items

\* C2: an insert that returns Err is all-or-nothing: the writer is not
\* called, and no counter, stored key or stored value changes.
C2_ErrInsertNoMutation ==
    [][(InsertStep /\ last'.status = "Err") =>
          /\ last'.item = NoItem
          /\ counts' = counts
          /\ key_mem' = key_mem
          /\ value_mem' = value_mem]_vars

\* C2 witness: an insert into a full bucket returned Err without calling
\* the writer.
C2_Witness ==
    /\ last.op = "insert" /\ last.status = "Err" /\ last.item = NoItem
    /\ counts[last.bucket] = CAP
    /\ \E b \in Buckets : counts[b] < CAP

\* C3: append order. The value of the i-th insert into bucket b that
\* returned Ok (0-based) is what item_value(b, i) returns, whatever other
\* inserts, failing or into other buckets, came in between.
C3_AppendOrder ==
    \A b \in Buckets : \A i \in 1 .. Len(vlog[b]) :
        item_value(counts, value_mem, b, i - 1) = {vlog[b][i]}

\* C3 witness: two different values in one bucket, after a failed insert
\* and with an item in another bucket.
C3_Witness ==
    \E b \in Buckets, c \in Buckets :
        /\ b # c
        /\ Len(vlog[b]) >= 2 /\ vlog[b][1] # vlog[b][2]
        /\ Len(vlog[c]) >= 1
        /\ item_value(counts, value_mem, b, 1) = {vlog[b][2]}
        /\ last.op = "insert" /\ last.status = "Err"

\* C4: counts[b] <= CAP for every bucket in every reachable state, and no
\* step (insert, lookup, drop_key_storage) decreases a counter.
C4_CountsBoundedMonotonic ==
    [][\A b \in Buckets :
          /\ counts[b] <= CAP
          /\ counts'[b] <= CAP
          /\ counts[b] <= counts'[b]]_vars

\* C4 witness: a full bucket after the downgrade and a lookup.
C4_Witness ==
    /\ kind = "Value"
    /\ last.op = "item_value" /\ last.status = "Ok"
    /\ \E b \in Buckets : counts[b] = CAP

\* C5: no uninitialized read. Every slot (b, i) with i < counts[b] has been
\* written: the value slot always, the key slot while the
\* KeyValueBucketArray lives; so a lookup that passes the range assertion
\* has one outcome, the value written.
C5_ValidSlotsWritten ==
    \A b \in Buckets : \A i \in item_range(counts, b) :
        /\ i \in Items
        /\ value_mem[b][i] # Uninit
        /\ Cardinality(item_value(counts, value_mem, b, i)) = 1
        /\ kind = "KeyValue" =>
               /\ key_mem[b][i] # Uninit
               /\ Cardinality(item_stored_key(counts, key_mem, b, i)) = 1
               /\ Panic \notin item_full_key(counts, key_mem, b, i)

\* C5 witness: a lookup read a valid slot while another slot of the bucket
\* is still unwritten.
C5_Witness ==
    /\ last.op = "item_stored_key" /\ last.status = "Ok"
    /\ counts[last.bucket] < CAP
    /\ key_mem[last.bucket][counts[last.bucket]] = Uninit

\* C6: split/join exactness. For every key k and every bucket count n >= 1
\* of the Key type, join_wide_key(split_wide_key(k)) = k, and
\* remainder * divisor + bucket does not overflow.
C6_SplitJoinExact ==
    calc.phase = "joined" => (calc.joined = calc.key /\ ~calc.overflow)

\* C6 witness: a key with a nonzero bucket and a nonzero remainder, for a
\* bucket count that is not a power of two, was split and joined.
C6_Witness ==
    /\ calc.phase = "joined"
    /\ calc.n = 3 /\ calc.bucket > 0 /\ calc.remainder > 0
    /\ calc.joined = calc.key

\* the remainder of key k fits the KeyStorage type
Fits(k) == split_wide_key(N, k).remainder <= KSMax

\* C7: lossless case of item_full_key. If key k went in as item i of bucket
\* b of the KeyValueBucketArray and its remainder k div N fits KeyStorage,
\* item_full_key(b, i) returns k.
C7_FullKeyLossless ==
    kind = "KeyValue" =>
        \A b \in Buckets : \A i \in 1 .. Len(klog[b]) :
            Fits(klog[b][i]) =>
                item_full_key(counts, key_mem, b, i - 1) = {klog[b][i]}

\* C7 witness: item_full_key returned the inserted key, whose bucket and
\* remainder are both nonzero.
C7_Witness ==
    /\ last.op = "item_full_key" /\ last.status = "Ok"
    /\ last.ret = klog[last.bucket][last.item + 1]
    /\ Fits(last.ret)
    /\ last.bucket > 0 /\ last.ret \div N > 0

\* C8: lossy case of item_full_key. If the remainder k div N of an inserted
\* key does not fit KeyStorage's width w, item_full_key(b, i) returns
\* ((k div N) mod 2^w) * N + (k mod N), which is not k; and no insert
\* aborts: it returns Ok, or Err for a full bucket.
C8_FullKeyLossy ==
    /\ last.op = "insert" =>
           \/ last.status = "Ok"
           \/ last.status = "Err" /\ counts[last.bucket] = CAP
    /\ kind = "KeyValue" =>
           \A b \in Buckets : \A i \in 1 .. Len(klog[b]) :
               LET k == klog[b][i]
                   truncated == ((k \div N) % Pow2(KSBits)) * N + (k % N)
               IN  ~Fits(k) =>
                       /\ item_full_key(counts, key_mem, b, i - 1) = {truncated}
                       /\ truncated # k

\* C8 witness: item_full_key returned a key other than the one inserted.
C8_Witness ==
    /\ last.op = "item_full_key" /\ last.status = "Ok"
    /\ last.ret # klog[last.bucket][last.item + 1]
    /\ ~Fits(klog[last.bucket][last.item + 1])

\* the (bucket, item, value) triples seen through item_range and item_value
Observable(cs, vmem) ==
    {<<b, i, item_value(cs, vmem, b, i)>> : b \in Buckets, i \in ItemArgs} \
        {<<b, i, {Panic}>> : b \in Buckets, i \in ItemArgs}

\* C9: downgrade preserves values. The (bucket, item, value) triples seen
\* through item_range and item_value on the KeyValueBucketArray right
\* before drop_key_storage are those seen on the ValueBucketArray it
\* returns.
C9_DowngradePreservesValues ==
    [][DropStep =>
          /\ Observable(counts', value_mem') = Observable(counts, value_mem)
          /\ \A b \in Buckets : \A i \in item_range(counts, b) :
                 /\ i \in item_range(counts', b)
                 /\ item_value(counts', value_mem', b, i)
                        = item_value(counts, value_mem, b, i)]_vars

\* C9 witness: a ValueBucketArray just returned by drop_key_storage shows
\* items in two buckets.
C9_Witness ==
    /\ last.op = "drop_key_storage" /\ kind = "Value"
    /\ \A b \in Buckets : counts[b] > 0
    /\ Cardinality(Observable(counts, value_mem)) >= 3

\* C10: downgrade carries the counters over. item_range(b) of the
\* ValueBucketArray is item_range(b) of the consumed KeyValueBucketArray,
\* so an insert on the ValueBucketArray lands right after the items of both
\* wrappers, overwrites none of them, and fails if the bucket was full.
C10_DowngradeCarriesCounters ==
    [][/\ DropStep =>
              \A b \in Buckets : item_range(counts', b) = item_range(counts, b)
       /\ (InsertStep /\ kind = "Value") =>
              LET b == last'.bucket
              IN  IF Len(vlog[b]) = CAP
                  THEN last'.status = "Err"
                  ELSE /\ last'.status = "Ok"
                       /\ last'.item = Len(vlog[b])
                       /\ last'.item = counts[b]
                       /\ \A i \in item_range(counts, b) :
                              value_mem'[b][i] = value_mem[b][i]]_vars

\* C10 witness: an insert on the ValueBucketArray landed after an item the
\* KeyValueBucketArray had stored.
C10_Witness ==
    /\ last.op = "insert" /\ last.status = "Ok" /\ kind = "Value"
    /\ last.item > 0
    /\ Len(klog[last.bucket]) = last.item
    /\ value_mem[last.bucket][last.item] # Uninit

\* The last call was new, insert or drop_key_storage. A lookup changes
\* neither the counters nor the memory, so these states carry every
\* (kind, counts, key_mem, value_mem) the program reaches.
AfterUpdate == last.op \in {"new", "insert", "drop_key_storage"}

\* the lookups that take a bucket and an item
Lookups == {"item_value", "item_stored_key", "item_full_key"}

\* C11: out-of-range item lookup aborts. For every bucket b < N and every
\* item index i >= counts[b] (i = counts[b] in particular, 0 for an empty
\* bucket), item_value on either wrapper and item_stored_key and
\* item_full_key on the KeyValueBucketArray panic and return nothing.
C11_OutOfRangeItemAborts ==
    /\ AfterUpdate => \A b \in Buckets : \A i \in 0 .. (CAP + 1) :
           i >= counts[b] =>
               /\ item_value(counts, value_mem, b, i) = {Panic}
               /\ kind = "KeyValue" =>
                      /\ item_stored_key(counts, key_mem, b, i) = {Panic}
                      /\ item_full_key(counts, key_mem, b, i) = {Panic}
    /\ (/\ last.op \in Lookups
        /\ last.bucket \in Buckets
        /\ last.item >= counts[last.bucket]) =>
           (last.status = "Abort" /\ last.ret = Panic)

\* C11 witness: item_stored_key(b, counts[b]) panicked on a bucket that
\* holds an item but is not full.
C11_Witness ==
    /\ last.op = "item_stored_key" /\ last.status = "Abort"
    /\ last.bucket \in Buckets
    /\ last.item = counts[last.bucket]
    /\ counts[last.bucket] > 0 /\ counts[last.bucket] < CAP

(***************************************************************************)
(* A Count type too narrow for the capacity (for instance C = u8 with      *)
(* CAP = 256): the same calls on an array whose counters cannot hold CAP.  *)
(***************************************************************************)
\* the widest Count type that cannot represent CAP
NarrowCountBits ==
    CHOOSE w \in 0 .. CountBits : Pow2(w) - 1 < CAP /\ Pow2(w + 1) - 1 >= CAP

\* KeyValueBucketArray::new and ValueBucketArray::new with the narrow Count
InitNarrow ==
    /\ kind \in {"KeyValue", "Value"}
    /\ counts = BucketArrayImpl_new
    /\ key_mem = BucketArrayMemory
    /\ value_mem = BucketArrayMemory
    /\ last = NoCall
    /\ ncalls = 0
    /\ vlog = [b \in Buckets |-> <<>>]
    /\ klog = [b \in Buckets |-> <<>>]
    /\ calc = CalcIdle
    /\ cbits = NarrowCountBits
    /\ claim = claims_of_new(kind)
    /\ pc = PcIdle

SpecNarrow == InitNarrow /\ [][Next]_vars

\* C12: configuration check. When CAP is larger than the largest value of
\* the Count type, the array fails fatally when it is constructed or first
\* used: no call on it returns, and nothing fails only later.
C12_ConfigCheckFailsFast ==
    CAP > CountMax => (last.op = "new" \/ Aborted)

\* C13: item_range(bucket) is 0 .. counts[bucket]-1 for every bucket < N and
\* panics for every bucket >= N; item_value, item_stored_key and
\* item_full_key panic for every bucket >= N, whatever the item index.
C13_BucketOutOfRangeAborts ==
    /\ \A b \in Buckets :
           Shape_item_range(counts, b) = {i \in 0 .. CAP : i < counts[b]}
    /\ \A b \in N .. (N + 1) :
           /\ Shape_item_range(counts, b) = {Panic}
           /\ \A i \in 0 .. (CAP + 1) :
                  /\ item_value(counts, value_mem, b, i) = {Panic}
                  /\ kind = "KeyValue" =>
                         /\ item_stored_key(counts, key_mem, b, i) = {Panic}
                         /\ item_full_key(counts, key_mem, b, i) = {Panic}
    /\ (last.op \in Lookups \cup {"item_range"} /\ last.bucket \notin Buckets) =>
           last.status = "Abort"
    /\ (last.op = "item_range" /\ last.bucket \in Buckets) =>
           (last.status = "Ok" /\ last.ret = counts[last.bucket])

\* C13 witness: item_value panicked for bucket N at an item index that is
\* valid in every bucket of the array.
C13_Witness ==
    /\ last.op = "item_value" /\ last.status = "Abort"
    /\ last.bucket = N
    /\ \A b \in Buckets : last.item \in item_range(counts, b)

(***************************************************************************)
(* The borrows of the two memory regions. The caller may wrap the key      *)
(* memory in another array once no wrapper borrows it.                     *)
(***************************************************************************)
\* the caller hands &'k mut key memory to another wrapper: the borrow can
\* be taken only while no other borrow of the region is live
ClaimKeyMem ==
    /\ ~Aborted /\ claim.key = {}
    /\ claim' = [claim EXCEPT !.key = {"Other"}]
    /\ UNCHANGED <<kind, counts, key_mem, value_mem, last, ncalls, vlog, klog, aside>>

\* that other wrapper is dropped and its borrow ends
ReleaseKeyMem ==
    /\ ~Aborted /\ claim.key = {"Other"}
    /\ claim' = [claim EXCEPT !.key = {}]
    /\ UNCHANGED <<kind, counts, key_mem, value_mem, last, ncalls, vlog, klog, aside>>

NextOwn == Next \/ ClaimKeyMem \/ ReleaseKeyMem

SpecOwn == Init /\ [][NextOwn]_vars

\* C14: exclusive claim and ownership transfer. Every memory region has at
\* most one live wrapper borrowing it; drop_key_storage ends the
\* KeyValueBucketArray (no call on it happens afterwards and its key memory
\* is not touched), moves the borrow of the value memory to the
\* ValueBucketArray without duplicating it, and ends the borrow of the key
\* memory, which another wrapper can then take.
C14_ExclusiveClaims ==
    [][/\ Cardinality(claim.key) <= 1 /\ Cardinality(claim.value) <= 1
       /\ Cardinality(claim'.key) <= 1 /\ Cardinality(claim'.value) <= 1
       /\ claim'.value = {kind'}
       /\ ("KeyValue" \in claim'.key) <=> (kind' = "KeyValue")
       /\ DropStep =>
              /\ claim.key = {"KeyValue"} /\ claim.value = {"KeyValue"}
              /\ claim'.key = {} /\ claim'.value = {"Value"}
       /\ kind = "Value" =>
              /\ kind' = "Value"
              /\ key_mem' = key_mem
              /\ last' # last =>
                     last'.op \notin {"item_stored_key", "item_full_key",
                                      "drop_key_storage"}]_vars

\* C14 witness: after drop_key_storage another wrapper holds the key memory
\* while the ValueBucketArray holds the value memory.
C14_Witness ==
    /\ last.op = "drop_key_storage" /\ kind = "Value"
    /\ claim.key = {"Other"} /\ claim.value = {"Value"}
    /\ \E b \in Buckets : counts[b] > 0

\* N >= 1 fits the Key type and CAP fits the Count type
ValidConfiguration == N >= 1 /\ N <= KeyMax /\ CAP <= CountMax

\* C15: capacity exceeded is a value, not a crash. In a valid configuration
\* insert on the live wrapper ends with Ok or Err for every key of the Key
\* type in every reachable state, never with a panic, and the bucket it
\* computes is below N.
C15_InsertNeverAborts ==
    ValidConfiguration =>
        /\ last.op = "insert" =>
               (last.status \in {"Ok", "Err"} /\ last.bucket \in Buckets)
        /\ AfterUpdate => \A k \in AllKeys :
               LET c == insert_call(kind = "KeyValue", counts, k)
               IN  /\ c.bucket \in Buckets
                   /\ c.statuses # {}
                   /\ c.statuses \subseteq {"Ok", "Err"}

\* C15 witness: the ValueBucketArray returned Err for a bucket that the
\* two wrappers had filled together.
C15_Witness ==
    /\ last.op = "insert" /\ last.status = "Err" /\ kind = "Value"
    /\ Len(klog[last.bucket]) >= 1
    /\ Len(klog[last.bucket]) < Len(vlog[last.bucket])
    /\ Len(vlog[last.bucket]) = CAP

\* C16: from_key truncates. With KeyStorage no wider than Key, from_key(k)
\* is k mod 2^w for every key k (w the width of KeyStorage): the high bits
\* are dropped, the value is not saturated, and the call never panics.
C16_FromKeyTruncates ==
    (KSBits <= KeyBits /\ calc.phase \in {"stored", "widened"}) =>
        /\ calc.stored # Panic
        /\ calc.stored \in KSValues
        /\ calc.stored = calc.key % Pow2(KSBits)

\* C16 witness: a key above the KeyStorage range was stored as something
\* other than the largest KeyStorage value.
C16_Witness ==
    /\ calc.phase = "stored"
    /\ calc.key > KSMax
    /\ calc.stored # KSMax
    /\ calc.stored = calc.key % Pow2(KSBits)

\* C17: conditional round trip. into_key(from_key(k)) = k exactly when
\* k < 2^w; for k >= 2^w the round trip gives k mod 2^w, which is not k.
C17_ConditionalRoundTrip ==
    calc.phase = "widened" =>
        /\ (calc.widened = calc.key) <=> (calc.key < Pow2(KSBits))
        /\ calc.key >= Pow2(KSBits) =>
               /\ calc.widened = calc.key % Pow2(KSBits)
               /\ calc.widened # calc.key

\* C17 witness: a key above the KeyStorage range came back as its nonzero
\* low bits.
C17_Witness ==
    /\ calc.phase = "widened"
    /\ calc.key >= Pow2(KSBits)
    /\ calc.widened > 0
    /\ calc.widened # calc.key

\* C19: per-bucket state machine. A bucket is Empty (count 0), Partially
\* filled (0 < count < CAP) or Full (count CAP); a step that changes the count
\* of bucket b raises it by exactly one and is an insert into b that returned
\* Ok, and a Full bucket is Full after every step, drop_key_storage included.
C19_PerBucketStateMachine ==
    [][\A b \in Buckets :
          /\ counts[b] \in 0 .. CAP
          /\ counts'[b] # counts[b] =>
                 /\ counts'[b] = counts[b] + 1
                 /\ InsertStep /\ last'.status = "Ok" /\ last'.bucket = b
          /\ counts[b] = CAP => counts'[b] = CAP]_vars

\* C19 witness: right after drop_key_storage one bucket is Full and another
\* is Partially filled.
C19_Witness ==
    /\ last.op = "drop_key_storage" /\ kind = "Value"
    /\ \E b \in Buckets : counts[b] = CAP
    /\ \E b \in Buckets : 0 < counts[b] /\ counts[b] < CAP

\* C23: items are immutable once inserted. For every valid item (b, i),
\* item_value(b, i) gives the same result after any step as before it, a
\* later insert (Ok or Err, in b or elsewhere) and drop_key_storage included,
\* and so does item_stored_key(b, i) while the KeyValueBucketArray lives.
C23_ItemsImmutable ==
    [][<<kind, counts, key_mem, value_mem>>' # <<kind, counts, key_mem, value_mem>> =>
          \A b \in Buckets : \A i \in item_range(counts, b) :
              /\ Panic \notin item_value(counts, value_mem, b, i)
              /\ item_value(counts', value_mem', b, i) =
                     item_value(counts, value_mem, b, i)
              /\ (kind = "KeyValue" /\ kind' = "KeyValue") =>
                     item_stored_key(counts', key_mem', b, i) =
                         item_stored_key(counts, key_mem, b, i)]_vars

\* C23 witness: item 0 of a bucket, inserted through the KeyValueBucketArray,
\* is read back after the downgrade and a later insert into the same bucket
\* with another value.
C23_Witness ==
    /\ last.op = "item_value" /\ last.status = "Ok" /\ last.item = 0
    /\ kind = "Value"
    /\ last.bucket \in Buckets
    /\ Len(klog[last.bucket]) = 1
    /\ Len(vlog[last.bucket]) = 2
    /\ vlog[last.bucket][2] # vlog[last.bucket][1]
    /\ last.ret = vlog[last.bucket][1]

\* C24: key/value pairing. In the KeyValueBucketArray the n-th Ok insert
\* into bucket b, of (key, value), is item (b, n - 1): its key slot holds
\* key div N cut to the KeyStorage width and its value slot holds value; and
\* item_stored_key and item_value are valid for the same (bucket, item)s.
C24_KeyValuePairing ==
    (kind = "KeyValue" /\ AfterUpdate) =>
        \A b \in Buckets :
            /\ Len(klog[b]) = counts[b] /\ Len(vlog[b]) = counts[b]
            /\ \A i \in item_range(counts, b) :
                   /\ key_mem[b][i] = <<(klog[b][i + 1] \div N) % Pow2(KSBits)>>
                   /\ value_mem[b][i] = <<vlog[b][i + 1]>>
            /\ \A i \in ItemArgs :
                   (Panic \in item_stored_key(counts, key_mem, b, i)) <=>
                       (Panic \in item_value(counts, value_mem, b, i))

\* C24 witness: a bucket of the KeyValueBucketArray holds two items with
\* different stored keys and different values.
C24_Witness ==
    /\ kind = "KeyValue"
    /\ \E b \in Buckets :
           /\ counts[b] >= 2
           /\ key_mem[b][0] # key_mem[b][1]
           /\ value_mem[b][0] # value_mem[b][1]

\* C25: frame of a successful insert. An insert that returns Ok on bucket b
\* raises counts[b] by exactly one and leaves every other counter alone; it
\* writes slot (b, old counts[b]) and no other slot of the key or the value
\* memory, so every item that was valid, in b or elsewhere, is unchanged.
C25_InsertFrame ==
    [][(InsertStep /\ last'.status = "Ok") =>
          LET b == last'.bucket
              c == counts[b]
          IN  /\ b \in Buckets /\ last'.item = c
              /\ counts' = [counts EXCEPT ![b] = c + 1]
              /\ value_mem'[b][c] # Uninit
              /\ kind = "KeyValue" => key_mem'[b][c] # Uninit
              /\ \A bb \in Buckets : \A i \in Items :
                     <<bb, i>> # <<b, c>> =>
                         /\ value_mem'[bb][i] = value_mem[bb][i]
                         /\ key_mem'[bb][i] = key_mem[bb][i]
              /\ kind = "Value" => key_mem' = key_mem]_vars

\* C25 witness: an insert returned Ok as the second item of its bucket
\* while another bucket held an item.
C25_Witness ==
    /\ last.op = "insert" /\ last.status = "Ok" /\ last.item = 1
    /\ \E b \in Buckets \ {last.bucket} : counts[b] > 0 /\ counts[b] < CAP

(***************************************************************************)
(* insert statement by statement: the position of the one insert in        *)
(* progress is pc.stage, and every state in between is a state of the      *)
(* model.                                                                  *)
(***************************************************************************)

\* insert storing the new count before it calls the writer
insert_order_increment_first(stage, kv) ==
    CASE stage = "check" -> "increment"
      [] stage = "increment" -> IF kv THEN "from_key" ELSE "write_value"
      [] stage = "from_key" -> "write_key"
      [] stage = "write_key" -> "write_value"
      [] OTHER -> "idle"

\* The statements of an insert that passed the capacity check, in program
\* order: writer(count_usize), whose body is from_key and the key write (in
\* the KeyValueBucketArray) and the value write, then the store to
\* self.counts[bucket]; the statement after `stage`, "idle" after the last
insert_order(stage, kv) ==
    CASE stage = "check" -> IF kv THEN "from_key" ELSE "write_value"
      [] stage = "from_key" -> "write_key"
      [] stage = "write_key" -> "write_value"
      [] stage = "write_value" -> "increment"
      [] OTHER -> "idle"

\* the end of one statement of insert: p is pc after the statement; after
\* the last statement the call returns Ok(())
StepEnd(p) ==
    LET next == insert_order(p.stage, p.kv)
    IN  IF next = "idle"
        THEN /\ pc' = PcIdle
             /\ last' = Call("insert", p.bucket, p.item, "Ok", NoValue)
             /\ ncalls' = ncalls + 1
             /\ vlog' = [vlog EXCEPT ![p.bucket] = Append(@, p.value)]
             /\ klog' = IF p.kv THEN [klog EXCEPT ![p.bucket] = Append(@, p.key)]
                        ELSE klog
        ELSE /\ pc' = [p EXCEPT !.stage = next]
             /\ UNCHANGED <<last, ncalls, vlog, klog>>

\* a panic inside insert: the call unwinds where it stands
StepPanic ==
    /\ pc' = PcIdle
    /\ last' = Call("insert", pc.bucket, pc.item, "Abort", NoValue)
    /\ ncalls' = ncalls + 1
    /\ UNCHANGED <<vlog, klog>>

\* insert(key, value) up to the capacity check: split_wide_key, then
\* item_count = self.counts[bucket]
StepCall(key, value) ==
    /\ pc.stage = "idle" /\ ~Aborted /\ ncalls < MaxCalls
    /\ LET s == split_wide_key(N, key)
           p == [PcIdle EXCEPT !.kv = (kind = "KeyValue"), !.key = key,
                               !.bucket = s.bucket, !.remainder = s.remainder,
                               !.value = value]
       IN  IF s.bucket \in DOMAIN counts
           THEN /\ pc' = [p EXCEPT !.stage = "check", !.item = counts[s.bucket]]
                /\ UNCHANGED <<last, ncalls>>
           ELSE /\ pc' = PcIdle
                /\ last' = Call("insert", s.bucket, NoItem, "Abort", NoValue)
                /\ ncalls' = ncalls + 1
    /\ UNCHANGED <<kind, counts, key_mem, value_mem, vlog, klog, calc, cbits, claim>>

\* if count_usize < Self::BUCKET_CAPACITY { .. } else { Err(()) }
StepCheck ==
    /\ pc.stage = "check"
    /\ IF pc.item < CAP
       THEN StepEnd(pc)
       ELSE /\ pc' = PcIdle
            /\ last' = Call("insert", pc.bucket, NoItem, "Err", NoValue)
            /\ ncalls' = ncalls + 1
            /\ UNCHANGED <<vlog, klog>>
    /\ UNCHANGED <<kind, counts, key_mem, value_mem, calc, cbits, claim>>

\* let key_storage = KS::from_key(key_remainder);
StepFromKey ==
    /\ pc.stage = "from_key"
    /\ LET key_storage == from_key(pc.remainder)
       IN  IF key_storage = Panic THEN StepPanic
           ELSE StepEnd([pc EXCEPT !.key_storage = key_storage])
    /\ UNCHANGED <<kind, counts, key_mem, value_mem, calc, cbits, claim>>

\* self.key_mem.inner[bucket][item].write(key_storage);
StepWriteKey ==
    /\ pc.stage = "write_key"
    /\ IF pc.item \in Items
       THEN /\ key_mem' = write(key_mem, pc.bucket, pc.item, pc.key_storage)
            /\ StepEnd(pc)
       ELSE /\ StepPanic
            /\ UNCHANGED key_mem
    /\ UNCHANGED <<kind, counts, value_mem, calc, cbits, claim>>

\* self.value_mem.inner[bucket][item].write(value);
StepWriteValue ==
    /\ pc.stage = "write_value"
    /\ IF pc.item \in Items
       THEN /\ value_mem' = write(value_mem, pc.bucket, pc.item, pc.value)
            /\ StepEnd(pc)
       ELSE /\ StepPanic
            /\ UNCHANGED value_mem
    /\ UNCHANGED <<kind, counts, key_mem, calc, cbits, claim>>

\* self.counts[bucket] = item_count + C::one();
StepIncrement ==
    /\ pc.stage = "increment"
    /\ \E panics \in (IF add_overflows(pc.item) THEN {TRUE, FALSE} ELSE {FALSE}) :
           IF panics
           THEN /\ StepPanic
                /\ UNCHANGED counts
           ELSE /\ counts' = [counts EXCEPT ![pc.bucket] = CountAddOne(pc.item)]
                /\ StepEnd(pc)
    /\ UNCHANGED <<kind, key_mem, value_mem, calc, cbits, claim>>

\* drop_key_storage(self) takes the wrapper by value: no insert is running
StepDrop == pc.stage = "idle" /\ drop_key_storage

NextSteps ==
    \/ \E key \in Keys, value \in Values : StepCall(key, value)
    \/ StepCheck
    \/ StepFromKey
    \/ StepWriteKey
    \/ StepWriteValue
    \/ StepIncrement
    \/ StepDrop

SpecSteps == Init /\ [][NextSteps]_vars

\* the slot (bucket, item) holds what its wrapper stores in a slot
SlotWritten(bucket, item) ==
    /\ value_mem[bucket][item] \in { <<v>> : v \in Values }
    /\ kind = "KeyValue" => key_mem[bucket][item] \in { <<k>> : k \in KSValues }

\* C18: write before increment. In every state of an insert, the states
\* between its statements included, each slot below its bucket's count is
\* written in full; while the writer runs the count of the target bucket is
\* still the index c handed to the writer, and when the count is about to
\* become c + 1 the slot c is written.
C18_WriteBeforeIncrement ==
    /\ \A b \in Buckets : \A i \in Items : i < counts[b] => SlotWritten(b, i)
    /\ pc.stage \in {"from_key", "write_key", "write_value", "increment"} =>
           counts[pc.bucket] = pc.item
    /\ pc.stage = "increment" => SlotWritten(pc.bucket, pc.item)

\* C18 witness: a KeyValue insert stands between its two writes: the key of
\* slot c is written, its value is not, and the count is still c.
C18_Witness ==
    /\ pc.stage = "write_value" /\ pc.kv
    /\ key_mem[pc.bucket][pc.item] # Uninit
    /\ value_mem[pc.bucket][pc.item] = Uninit
    /\ counts[pc.bucket] = pc.item
    /\ pc.item > 0

(***************************************************************************)
(* Memory that is wrapped again. The wrapper goes out of scope and new is  *)
(* called on the BucketArrayMemory it borrowed; the memory keeps whatever  *)
(* was written to it.                                                      *)
(***************************************************************************)

\* new that takes over the counters of the wrapper the memory had before
new_inner_kept(previous) == previous

\* inner: BucketArrayImpl::new() in KeyValueBucketArray::new and
\* ValueBucketArray::new: the counters of the new wrapper, whatever the
\* counters of the wrapper before it were
new_inner(previous) == BucketArrayImpl_new

\* the live wrapper is dropped and KeyValueBucketArray::new (k = "KeyValue")
\* or ValueBucketArray::new (k = "Value") wraps the same memory
WrapAgain(k) ==
    /\ ~Aborted /\ ncalls < MaxCalls
    /\ kind' = k
    /\ counts' = new_inner(counts)
    /\ last' = NoCall
    /\ ncalls' = ncalls + 1
    /\ vlog' = [b \in Buckets |-> <<>>]
    /\ klog' = [b \in Buckets |-> <<>>]
    /\ claim' = claims_of_new(k)
    /\ UNCHANGED <<key_mem, value_mem, aside>>

NextAgain ==
    \/ \E key \in Keys, value \in Values : KeyValue_insert(key, value)
    \/ \E key \in Keys, value \in Values : Value_insert(key, value)
    \/ \E bucket \in BucketArgs, item \in ItemArgs : ItemValue(bucket, item)
    \/ \E bucket \in BucketArgs, item \in ItemArgs : ItemStoredKey(bucket, item)
    \/ \E k \in {"KeyValue", "Value"} : WrapAgain(k)

SpecAgain == Init /\ [][NextAgain]_vars

\* C22: a fresh wrapper is empty. Right after new every counter is 0 and
\* every item_range is empty, also on memory an earlier wrapper wrote to; and
\* in every state a slot is readable only if an insert through the live
\* wrapper wrote it, the read giving what that insert wrote, never what an
\* earlier wrapper left in the slot.
C22_FreshWrapperIsEmpty ==
    /\ last.op = "new" =>
           \A b \in Buckets :
               /\ counts[b] = 0
               /\ item_range(counts, b) = {}
               /\ Shape_item_range(counts, b) = {}
    /\ AfterUpdate =>
           \A b \in Buckets : \A i \in Items :
               /\ item_value(counts, value_mem, b, i) =
                      IF i < Len(vlog[b]) THEN {vlog[b][i + 1]} ELSE {Panic}
               /\ kind = "KeyValue" =>
                      item_stored_key(counts, key_mem, b, i) =
                          IF i < Len(klog[b])
                          THEN {from_key(klog[b][i + 1] \div N)}
                          ELSE {Panic}

\* C22 witness: new has wrapped memory in which an earlier wrapper filled a
\* bucket.
C22_Witness ==
    /\ last.op = "new"
    /\ \E b \in Buckets : \A i \in Items : value_mem[b][i] # Uninit

\* C27: join is inverted by split. join_wide_key(bucket, remainder) is
\* remainder * N + bucket whenever that is representable in the Key type, and
\* then, for bucket < N, split_wide_key of it is (bucket, remainder) again.
C27_JoinThenSplit ==
    /\ calc.phase \in {"paired", "resplit"} =>
           /\ calc.overflow <=> calc.remainder * calc.n + calc.bucket > KeyMax
           /\ ~calc.overflow =>
                  calc.joined = calc.remainder * calc.n + calc.bucket
    /\ (calc.phase = "resplit" /\ calc.bucket < calc.n) =>
           /\ calc.rebucket = calc.bucket
           /\ calc.reremainder = calc.remainder

\* C27 witness: a pair with a nonzero bucket and a nonzero remainder came
\* back from join and split.
C27_Witness ==
    /\ calc.phase = "resplit"
    /\ calc.n > 1 /\ calc.bucket > 0 /\ calc.bucket < calc.n
    /\ calc.remainder > 0
    /\ calc.joined > calc.n
    /\ calc.rebucket = calc.bucket /\ calc.reremainder = calc.remainder

\* C28: into_key is a value-preserving zero-extension. For every KeyStorage
\* value s, into_key(s) is a Key with the numeric value of s, the call never
\* panics, and from_key(into_key(s)) is s.
C28_IntoKeyPreservesValue ==
    /\ calc.phase \in {"wide", "narrowed"} =>
           /\ calc.widened # Panic
           /\ calc.widened \in AllKeys
           /\ calc.widened = calc.stored
    /\ calc.phase = "narrowed" => calc.restored = calc.stored

\* C28 witness: the largest KeyStorage value, all bits set, was widened and
\* narrowed again.
C28_Witness ==
    /\ calc.phase = "narrowed"
    /\ calc.stored = KSMax
    /\ calc.restored = KSMax

(***************************************************************************)
(* Filling the array: inserts of one value and the downgrade only, with    *)
(* enough calls to fill every bucket and insert once more.                 *)
(***************************************************************************)
FillCalls == N * CAP + 1

\* the value the callers insert
FillValues == {CHOOSE value \in Values : TRUE}

FillKeyValue(key, value) == KeyValue_insert_within(FillCalls, key, value)

FillValue(key, value) == Value_insert_within(FillCalls, key, value)

NextFill ==
    \/ \E key \in Keys, value \in FillValues : FillKeyValue(key, value)
    \/ \E key \in Keys, value \in FillValues : FillValue(key, value)
    \/ drop_key_storage

SpecFill == Init /\ [][NextFill]_vars

\* the sum of f[b] over the buckets b of S
RECURSIVE Total(_, _)
Total(f, S) ==
    IF S = {} THEN 0
    ELSE LET b == CHOOSE x \in S : TRUE IN f[b] + Total(f, S \ {b})

\* the number of inserts that returned Ok, on the live wrapper and on the
\* KeyValueBucketArray it was downgraded from
OkInserts == Total([b \in Buckets |-> Len(vlog[b])], Buckets)

\* C20: split_wide_key(key) is (key mod N, key div N) with N = divisor(), in
\* ordinary integer arithmetic (remainder * N + bucket is the key itself),
\* for every key of the Key type, and the bucket is below N (the arithmetic
\* does not depend on the state of the array: it is looked at on the first
\* call); and the bucket an insert of key works on is this bucket.
C20_SplitIsModDiv ==
    [][InsertStep =>
          /\ ncalls = 0 =>
                 /\ divisor(N) = N
                 /\ \A key \in AllKeys :
                        LET s == split_wide_key(N, key)
                        IN  /\ s.bucket = key % N /\ s.bucket \in Buckets
                            /\ s.remainder = key \div N
                            /\ s.remainder * N + s.bucket = key
          /\ \A key \in Keys, value \in FillValues :
                 (FillKeyValue(key, value) \/ FillValue(key, value)) =>
                     /\ last'.bucket = key % N
                     /\ \A b \in Buckets \ {key % N} :
                            /\ counts'[b] = counts[b]
                            /\ value_mem'[b] = value_mem[b]
                            /\ key_mem'[b] = key_mem[b]]_vars

\* C20 witness: an insert returned Ok on a bucket other than 0 for a key of
\* that bucket with a nonzero quotient.
C20_Witness ==
    /\ last.op = "insert" /\ last.status = "Ok" /\ kind = "KeyValue"
    /\ last.bucket > 0
    /\ Len(klog[last.bucket]) = last.item + 1
    /\ LET key == klog[last.bucket][last.item + 1]
       IN  key % N = last.bucket /\ key \div N > 0

\* C21: no spurious failure. An insert of key returns Ok exactly when
\* counts[key mod N] < CAP before the call and Err exactly when it is not,
\* whatever the counts of the other buckets are.
C21_NoSpuriousFailure ==
    [][InsertStep =>
          \A key \in Keys, value \in FillValues :
              (FillKeyValue(key, value) \/ FillValue(key, value)) =>
                  /\ last'.status = "Ok" <=> counts[key % N] < CAP
                  /\ last'.status = "Err" <=> counts[key % N] >= CAP]_vars

\* C21 witness: an insert returned Ok while another bucket was full.
C21_Witness ==
    /\ last.op = "insert" /\ last.status = "Ok"
    /\ \E b \in Buckets \ {last.bucket} : counts[b] = CAP

\* C26: the ValueBucketArray ignores the remainder. Whatever insert(k1, v)
\* does from a state of the ValueBucketArray (its result and the state it
\* leaves), insert(k2, v) does from the same state, for every k2 with
\* k2 mod N = k1 mod N.
C26_ValueIgnoresRemainder ==
    [][(InsertStep /\ kind = "Value") =>
          \A k1 \in Keys, v \in FillValues :
              FillValue(k1, v) =>
                  \A k2 \in Keys : k2 % N = k1 % N => FillValue(k2, v)]_vars

\* C26 witness: the ValueBucketArray took an insert as the second item of a
\* bucket whose keys differ in their remainders.
C26_Witness ==
    /\ kind = "Value" /\ last.op = "insert" /\ last.status = "Ok"
    /\ last.item = 1
    /\ Len(klog[last.bucket]) = 0
    /\ \E k1 \in Keys, k2 \in Keys :
           k1 # k2 /\ k1 % N = last.bucket /\ k2 % N = last.bucket

\* C29: counting invariant. The sum of the counters is the number of inserts
\* that returned Ok (before and after the downgrade); it never exceeds
\* N * CAP; and once it is N * CAP an insert of any key returns Err: the
\* last insert was the last to succeed or returned Err, and the next one,
\* whatever its key, has Err as its only outcome.
C29_CountingInvariant ==
    /\ Total(counts, Buckets) = OkInserts
    /\ OkInserts <= N * CAP
    /\ OkInserts = N * CAP =>
           /\ last.op = "insert" => last.status \in {"Ok", "Err"}
           /\ \A key \in AllKeys :
                  insert_call(kind = "KeyValue", counts, key).statuses = {"Err"}

\* C29 witness: N * CAP inserts returned Ok, some of them before the
\* downgrade, and the insert after them returned Err.
C29_Witness ==
    /\ OkInserts = N * CAP
    /\ kind = "Value"
    /\ \E b \in Buckets : Len(klog[b]) > 0 /\ Len(klog[b]) < Len(vlog[b])
    /\ last.op = "insert" /\ last.status = "Err"
    /\ ncalls = N * CAP + 1
    /\ Total(counts, Buckets) = N * CAP

(***************************************************************************)
(* insert statement by statement with every Count type, up to CountBits    *)
(* wide, that can represent CAP.                                           *)
(***************************************************************************)
\* the widths of the Count types that can represent CAP
WideCountBits == {w \in 1 .. CountBits : CAP <= Pow2(w) - 1}

\* KeyValueBucketArray::new and ValueBucketArray::new with such a Count
InitWide ==
    /\ kind \in {"KeyValue", "Value"}
    /\ counts = BucketArrayImpl_new
    /\ key_mem = BucketArrayMemory
    /\ value_mem = BucketArrayMemory
    /\ last = NoCall
    /\ ncalls = 0
    /\ vlog = [b \in Buckets |-> <<>>]
    /\ klog = [b \in Buckets |-> <<>>]
    /\ calc = CalcIdle
    /\ cbits \in WideCountBits
    /\ claim = claims_of_new(kind)
    /\ pc = PcIdle

SpecWide == InitWide /\ [][NextSteps]_vars

\* C30: counter arithmetic never overflows in a valid configuration. With
\* CAP no larger than the largest value of the Count type, the increment is
\* reached only with a count below CAP, item_count + C::one() fits the Count
\* type and is the count plus one, no insert panics, and every counter is
\* the number of Ok inserts into its bucket: it never wraps and never
\* shrinks the valid range.
C30_CounterNeverOverflows ==
    CAP <= CountMax =>
        /\ ~Aborted
        /\ pc.stage = "increment" =>
               /\ pc.item < CAP
               /\ ~add_overflows(pc.item)
               /\ CountAddOne(pc.item) = pc.item + 1
        /\ \A b \in Buckets :
               /\ counts[b] <= CAP
               /\ counts[b] = Len(vlog[b])

\* C30 witness: the increment that fills a bucket is about to run.
C30_Witness ==
    /\ CAP <= CountMax
    /\ pc.stage = "increment"
    /\ pc.item = CAP - 1
    /\ counts[pc.bucket] = CAP - 1

====
